---------------------------- MODULE Spec2Model ----------------------------
(***************************************************************************)
(* The devtools server of components/devtools: the actor registry          *)
(* (actor.rs), the server loop run_server, the per-connection task         *)
(* handle_client and the control-message handler handle_new_global         *)
(* (lib.rs).                                                               *)
(*                                                                         *)
(* Bytes are the integers 0..255 and strings are sequences of bytes, so    *)
(* that the packet framing, the length prefix, the UTF-8 check and the     *)
(* JSON decoding are computed on what is on the wire.                      *)
(***************************************************************************)
EXTENDS Integers, Sequences, FiniteSets, TLC

(***************************************************************************)
(* Bounds of the model.                                                    *)
(***************************************************************************)
\* connections the clients open
MaxConn == 2
\* NewGlobal messages the embedding host sends
MaxTargets == 2
\* a client sends its next chunk when at most this many bytes are unread
Window == 8
\* packets a connection holds that its client has not received yet
OutWindow == 1

Conn == 1..MaxConn

(***************************************************************************)
(* Byte strings.                                                           *)
(***************************************************************************)
\* ':' as u8
Colon == 58

S_root == <<114, 111, 111, 116>>
S_tab == <<116, 97, 98>>
S_console == <<99, 111, 110, 115, 111, 108, 101>>
S_to == <<116, 111>>
S_type == <<116, 121, 112, 101>>
S_listTabs == <<108, 105, 115, 116, 84, 97, 98, 115>>
S_attach == <<97, 116, 116, 97, 99, 104>>
\* "n\u00e9o": four bytes, three characters
S_nobody == <<110, 195, 169, 111>>
S_bogus == <<98, 111, 103, 117, 115>>

IsDigit(c) == c >= 48 /\ c <= 57

RECURSIVE ToDec(_)
\* the decimal digits of n, as format!("{}", n) writes them
ToDec(n) == IF n < 10 THEN <<48 + n>> ELSE ToDec(n \div 10) \o <<48 + (n % 10)>>

\* format!("tab{}", n), format!("console{}", n)
FormatName(prefix, n) == prefix \o ToDec(n)

(***************************************************************************)
(* Library functions handle_client calls on the bytes it has read.        *)
(***************************************************************************)
RECURSIVE Utf8From(_, _)
\* whether b[i..] is well-formed UTF-8: ASCII bytes, and lead bytes each
\* followed by its continuation bytes
Utf8From(b, i) ==
    LET high == {k \in i..Len(b) : b[k] >= 128}
    IN  IF high = {} THEN TRUE
        ELSE LET j == CHOOSE k \in high : \A h \in high : k <= h
                 c == b[j]
                 n == IF c >= 194 /\ c <= 223 THEN 1
                      ELSE IF c >= 224 /\ c <= 239 THEN 2
                      ELSE IF c >= 240 /\ c <= 244 THEN 3
                      ELSE 0
             IN  /\ n > 0
                 /\ j + n <= Len(b)
                 /\ \A k \in (j + 1)..(j + n) : b[k] >= 128 /\ b[k] <= 191
                 /\ Utf8From(b, j + n + 1)

\* String::from_utf8(buf).is_ok()
from_utf8_ok(b) == Utf8From(b, 1)

RECURSIVE DecValue(_, _)
\* the number the digits b[1..i] spell
DecValue(b, i) == IF i = 0 THEN 0 ELSE DecValue(b, i - 1) * 10 + (b[i] - 48)

\* the longest length prefix this model's integers can hold
MaxDigits == 9

\* num::from_str_radix::<uint>(s, 10): None for an empty or non-numeric string.
\* (The code's uint also rejects 20 digits and more; the clients of this model
\* send no prefix longer than MaxDigits, which is rejected here.)
from_str_radix(b) ==
    IF Len(b) = 0 \/ Len(b) > MaxDigits \/ \E i \in 1..Len(b) : ~IsDigit(b[i])
    THEN [ok |-> FALSE, val |-> 0]
    ELSE [ok |-> TRUE, val |-> DecValue(b, Len(b))]

(***************************************************************************)
(* serialize::json: the values, and from_str on the JSON this model's      *)
(* clients send: objects, strings without escapes, unsigned numbers and    *)
(* the empty list, without white space. Anything else is a syntax error.   *)
(***************************************************************************)
JString(s) == [kind |-> "String", str |-> s, num |-> 0, obj |-> <<>>]
JNumber(n) == [kind |-> "Number", str |-> <<>>, num |-> n, obj |-> <<>>]
JObject(m) == [kind |-> "Object", str |-> <<>>, num |-> 0, obj |-> m]
JList == [kind |-> "List", str |-> <<>>, num |-> 0, obj |-> <<>>]
JNull == [kind |-> "Null", str |-> <<>>, num |-> 0, obj |-> <<>>]

ParseErr == [ok |-> FALSE, val |-> JNull, pos |-> 0]
ParseOk(v, p) == [ok |-> TRUE, val |-> v, pos |-> p]

\* TreeMap::insert: the later value of a key replaces the earlier one
MapInsert(m, k, v) == [x \in (DOMAIN m) \cup {k} |-> IF x = k THEN v ELSE m[x]]

\* a string literal whose opening quote is b[i]
parse_str(b, i) ==
    LET ends == {j \in (i + 1)..Len(b) : b[j] = 34}
    IN  IF ends = {} THEN ParseErr
        ELSE LET j == CHOOSE e \in ends : \A f \in ends : e <= f
                 s == SubSeq(b, i + 1, j - 1)
             IN  IF \E k \in 1..Len(s) : s[k] = 92 \/ s[k] < 32 THEN ParseErr
                 ELSE ParseOk(JString(s), j + 1)

\* a number whose first digit is b[i]
parse_number(b, i) ==
    LET stops == {j \in i..Len(b) : ~IsDigit(b[j])}
        e == IF stops = {} THEN Len(b) + 1
             ELSE CHOOSE x \in stops : \A y \in stops : x <= y
    IN  IF b[i] = 48 /\ e > i + 1 THEN ParseErr
        ELSE ParseOk(JNumber(DecValue(SubSeq(b, i, e - 1), e - i)), e)

RECURSIVE parse_value(_, _), parse_members(_, _, _)
\* the value that starts at b[i]
parse_value(b, i) ==
    IF i > Len(b) THEN ParseErr
    ELSE IF b[i] = 34 THEN parse_str(b, i)
    ELSE IF IsDigit(b[i]) THEN parse_number(b, i)
    ELSE IF b[i] = 91
         THEN IF i + 1 <= Len(b) /\ b[i + 1] = 93 THEN ParseOk(JList, i + 2)
              ELSE ParseErr
    ELSE IF b[i] = 123
         THEN IF i + 1 <= Len(b) /\ b[i + 1] = 125 THEN ParseOk(JObject(<<>>), i + 2)
              ELSE parse_members(b, i + 1, <<>>)
    ELSE ParseErr

\* the members of an object from b[i] on: "key":value, then ',' or '}'
parse_members(b, i, acc) ==
    IF i > Len(b) \/ b[i] # 34 THEN ParseErr
    ELSE LET k == parse_str(b, i)
         IN  IF ~k.ok \/ k.pos > Len(b) \/ b[k.pos] # Colon THEN ParseErr
             ELSE LET v == parse_value(b, k.pos + 1)
                  IN  IF ~v.ok \/ v.pos > Len(b) THEN ParseErr
                      ELSE LET m == MapInsert(acc, k.val.str, v.val)
                           IN  IF b[v.pos] = 125 THEN ParseOk(JObject(m), v.pos + 1)
                               ELSE IF b[v.pos] = 44 THEN parse_members(b, v.pos + 1, m)
                               ELSE ParseErr

\* json::from_str: the whole input must be one value
json_from_str(b) ==
    LET r == parse_value(b, 1)
    IN  IF r.ok /\ r.pos = Len(b) + 1 THEN r ELSE ParseErr

(***************************************************************************)
(* The packet framing of handle_client's loop:                             *)
(* [ascii length]:[JSON data of given length].                             *)
(***************************************************************************)
RECURSIVE read_prefix(_, _, _)
\* the inner loop: read_byte() by read_byte(), each byte that is not the
\* colon is pushed to buffer; i is the next byte of the stream to read
read_prefix(bytes, i, buffer) ==
    IF i > Len(bytes) THEN [colon |-> FALSE, buffer |-> buffer, pos |-> i]
    ELSE IF bytes[i] # Colon THEN read_prefix(bytes, i + 1, Append(buffer, bytes[i]))
    ELSE [colon |-> TRUE, buffer |-> buffer, pos |-> i + 1]

\* One turn of the outer loop on the bytes that have arrived (fin: the peer
\* has closed): "blocked" while a read waits for bytes, "ok" with the decoded
\* packet and the bytes left, "eof" at EndOfFile in the prefix, or the
\* unwrap() that fails.
read_packet(bytes, fin) ==
    LET p == read_prefix(bytes, 1, <<>>)
        n == from_str_radix(p.buffer)
        avail == Len(bytes) - p.pos + 1
        packet_buf == SubSeq(bytes, p.pos, p.pos + n.val - 1)
        json == json_from_str(packet_buf)
        fail(why) == [status |-> why, json |-> JNull, rest |-> <<>>]
    IN  IF ~p.colon THEN (IF fin THEN fail("eof") ELSE fail("blocked"))
        ELSE IF ~from_utf8_ok(p.buffer) THEN fail("length not utf8")
        ELSE IF ~n.ok THEN fail("length not a number")
        ELSE IF avail < n.val THEN (IF fin THEN fail("truncated") ELSE fail("blocked"))
        ELSE IF ~from_utf8_ok(packet_buf) THEN fail("packet not utf8")
        ELSE IF ~json.ok THEN fail("packet not json")
        ELSE [status |-> "ok", json |-> json.val,
              rest |-> SubSeq(bytes, p.pos + n.val, Len(bytes))]

(***************************************************************************)
(* The actors (actors/root.rs, tab.rs, console.rs) as the registry sees    *)
(* them, and the registry (actor.rs).                                      *)
(***************************************************************************)
RootActor(next, tabs) == [kind |-> "Root", next |-> next, tabs |-> tabs]
TabActor(name, title, url) ==
    [kind |-> "Tab", name |-> name, title |-> title, url |-> url]
ConsoleActor(name, script_chan, pipeline) ==
    [kind |-> "Console", name |-> name, script_chan |-> script_chan,
     pipeline |-> pipeline]

\* Actor::name
Actor_name(a) == IF a.kind = "Root" THEN S_root ELSE a.name

\* Actor::handle_message: whether the actor knows the message type, and the
\* reply it writes to the stream when it does
Actor_handle_message(a, msg_type) ==
    LET known == IF a.kind = "Root" THEN msg_type = S_listTabs
                 ELSE IF a.kind = "Tab" THEN msg_type = S_attach
                 ELSE FALSE
    IN  [handled |-> known,
         reply |-> IF known THEN <<[from |-> Actor_name(a), reply_to |-> msg_type]>>
                   ELSE <<>>]

\* RootActor::encodable: the greeting
Root_encodable(root) == [from |-> S_root, tabs |-> root.tabs]

\* ActorRegistry::new
ActorRegistry_new == <<>>

\* (mutant) a name that is bound keeps its actor
register_keepOld(reg, actor) ==
    IF Actor_name(actor) \in DOMAIN reg THEN reg ELSE MapInsert(reg, Actor_name(actor), actor)

\* ActorRegistry::register
register(reg, actor) == MapInsert(reg, Actor_name(actor), actor)

\* ActorRegistry::find / find_mut: the lookup whose unwrap() fails on None;
\* the downcast never fails, `is` being constantly true
find_ok(reg, name) == name \in DOMAIN reg

\* no actor
NoActor == [kind |-> "None"]

\* AnyRefExt::is for &Actor: the comparison of the type ids is commented out
is(a, T) == TRUE

\* downcast_ref / downcast_mut: Some(the data pointer, as a T) if is::<T>()
downcast_ref(a, T) ==
    IF is(a, T)
    THEN [some |-> TRUE, type |-> T, data |-> a]
    ELSE [some |-> FALSE, type |-> T, data |-> NoActor]

\* ActorRegistry::find: the two unwrap()s, of the lookup and of the downcast.
\* What is returned is the registered actor's data under the type asked for.
find(reg, name, T) ==
    IF name \notin DOMAIN reg
    THEN [panic |-> TRUE, type |-> T, data |-> NoActor]
    ELSE LET o == downcast_ref(reg[name], T)
         IN  IF o.some
             THEN [panic |-> FALSE, type |-> T, data |-> o.data]
             ELSE [panic |-> TRUE, type |-> T, data |-> NoActor]

\* ActorRegistry::find_mut: as find, with downcast_mut
find_mut(reg, name, T) == find(reg, name, T)

\* (mutant) the message type is unwrapped before the actor is looked up
handle_message_typeFirst(reg, msg) ==
    IF S_to \notin DOMAIN msg \/ msg[S_to].kind # "String"
    THEN [panic |-> TRUE, res |-> "no to", reply |-> <<>>]
    ELSE IF S_type \notin DOMAIN msg \/ msg[S_type].kind # "String"
    THEN [panic |-> TRUE, res |-> "no type", reply |-> <<>>]
    ELSE LET to == msg[S_to].str
         IN  IF to \notin DOMAIN reg
             THEN [panic |-> FALSE, res |-> "unknown actor", reply |-> <<>>]
             ELSE LET h == Actor_handle_message(reg[to], msg[S_type].str)
                  IN  IF h.handled
                      THEN [panic |-> FALSE, res |-> "handled", reply |-> h.reply]
                      ELSE [panic |-> FALSE, res |-> "unexpected message type",
                            reply |-> <<>>]

\* (mutant) a message the actor does not handle fails the task
handle_message_assertHandled(reg, msg) ==
    IF S_to \notin DOMAIN msg \/ msg[S_to].kind # "String"
    THEN [panic |-> TRUE, res |-> "no to", reply |-> <<>>]
    ELSE LET to == msg[S_to].str
         IN  IF to \notin DOMAIN reg
             THEN [panic |-> FALSE, res |-> "unknown actor", reply |-> <<>>]
             ELSE IF S_type \notin DOMAIN msg \/ msg[S_type].kind # "String"
             THEN [panic |-> TRUE, res |-> "no type", reply |-> <<>>]
             ELSE LET h == Actor_handle_message(reg[to], msg[S_type].str)
                  IN  IF h.handled
                      THEN [panic |-> FALSE, res |-> "handled", reply |-> h.reply]
                      ELSE [panic |-> TRUE, res |-> "unexpected message type",
                            reply |-> <<>>]

\* ActorRegistry::handle_message, without the stream: what it logs (res), the
\* reply the actor writes, and whether one of its unwrap()s failed
handle_message(reg, msg) ==
    IF S_to \notin DOMAIN msg \/ msg[S_to].kind # "String"
    THEN [panic |-> TRUE, res |-> "no to", reply |-> <<>>]
    ELSE LET to == msg[S_to].str
         IN  IF to \notin DOMAIN reg
             THEN [panic |-> FALSE, res |-> "unknown actor", reply |-> <<>>]
             ELSE IF S_type \notin DOMAIN msg \/ msg[S_type].kind # "String"
             THEN [panic |-> TRUE, res |-> "no type", reply |-> <<>>]
             ELSE LET h == Actor_handle_message(reg[to], msg[S_type].str)
                  IN  IF h.handled
                      THEN [panic |-> FALSE, res |-> "handled", reply |-> h.reply]
                      ELSE [panic |-> FALSE, res |-> "unexpected message type",
                            reply |-> <<>>]

(***************************************************************************)
(* sync::Mutex: the task that holds it, and whether a task failed while    *)
(* holding it. lock() waits while the mutex is held and fails the calling  *)
(* task when the mutex is poisoned; a guard dropped by an unwinding task   *)
(* releases the mutex and poisons it.                                      *)
(***************************************************************************)
NoTask == [kind |-> "none", id |-> 0]
ServerTask == [kind |-> "server", id |-> 0]
WorkerTask(s) == [kind |-> "worker", id |-> s]

Mutex_new == [holder |-> NoTask, failed |-> FALSE]

\* (mutant) lock() does not wait for the holder
Mutex_free_always(m) == TRUE

\* lock() returns (or fails) only when no task holds the mutex
Mutex_free(m) == m.holder = NoTask

\* the guard is dropped normally
\* (mutant) the guard outlives its block
Mutex_keep(m) == m

Mutex_unlock(m) == [m EXCEPT !.holder = NoTask]

\* (mutant) a failing task poisons the mutex whether it holds it or not
Mutex_unwind_always(m, t) == [holder |-> NoTask, failed |-> TRUE]

\* task t unwinds: the guard it holds, if any, is dropped and poisons the mutex
Mutex_unwind(m, t) ==
    IF m.holder = t THEN [holder |-> NoTask, failed |-> TRUE] ELSE m

(***************************************************************************)
(* The clients: what each connection sends, in chunks, before it closes.   *)
(***************************************************************************)
Quoted(s) == <<34>> \o s \o <<34>>
Member(k, v) == Quoted(k) \o <<Colon>> \o Quoted(v)
Obj1(k, v) == <<123>> \o Member(k, v) \o <<125>>
Obj2(k1, v1, k2, v2) == <<123>> \o Member(k1, v1) \o <<44>> \o Member(k2, v2) \o <<125>>

\* [ascii length]:[JSON data of given length]
Pkt(p) == ToDec(Len(p)) \o <<Colon>> \o p

P_listTabs == Obj2(S_to, S_root, S_type, S_listTabs)
P_attach0 == Obj2(S_to, FormatName(S_tab, 0), S_type, S_attach)
P_unknownTo == Obj2(S_to, S_nobody, S_type, S_listTabs)
P_badType == Obj2(S_to, S_root, S_type, S_bogus)
P_noTypeUnknown == Obj1(S_to, S_nobody)
P_noType == Obj1(S_to, S_root)
P_noTo == Obj1(S_type, S_listTabs)
P_list == <<91, 93>>
P_empty == <<123, 125>>

\* What a client of each kind sends, chunk by chunk. The well-behaved client
\* sends three messages the registry logs and ignores, then two it handles, the
\* first of these cut in two chunks; every other client sends one packet that
\* ends its connection.
Scripts ==
    [normal |-> <<Pkt(P_unknownTo) \o Pkt(P_badType) \o Pkt(P_noTypeUnknown)
                      \o SubSeq(Pkt(P_listTabs), 1, 8),
                  SubSeq(Pkt(P_listTabs), 9, Len(Pkt(P_listTabs))),
                  Pkt(P_attach0)>>,
     noType |-> <<Pkt(P_noType)>>,
     noTo |-> <<Pkt(P_noTo)>>,
     notObject |-> <<Pkt(P_list)>>,
     emptyPrefix |-> << <<Colon>> \o P_empty >>,
     nonNumeric |-> << <<120, Colon>> \o P_empty >>,
     truncated |-> << <<51, Colon>> \o P_empty >>,
     badUtf8 |-> << <<49, Colon, 255>> >>,
     badJson |-> << <<49, Colon, 123>> >>,
     eofInPrefix |-> << <<50>> >>]

ScriptKinds == DOMAIN Scripts

\* the kinds of client that close their end of the connection
HangsUp == {"normal", "truncated", "eofInPrefix"}

\* the Sender<DevtoolScriptControlMsg> of the script task of a pipeline
ScriptChan(id) == <<"script_chan", id>>

\* the pipeline ids the host announces, in the order it announces them
PipelineIds == <<7, 3, 11, 5, 2, 9>>

(***************************************************************************)
(* The state.                                                              *)
(***************************************************************************)
VARIABLES
    actors,    \* the registry's HashMap: name -> actor
    mutex,     \* the Mutex around the registry
    srv,       \* the server task: where it is, and handle_new_global's locals
    chan,      \* the control channel: messages sent and not yet received
    host,      \* the embedding host: NewGlobals sent, exit asked, Sender held
    cl,        \* the clients: connection state and what is left to send
    inbuf,     \* per connection: bytes sent and not yet read by the worker
    w,         \* the worker tasks (handle_client)
    out,       \* per connection: the packets the server wrote
    applied,   \* the NewGlobal messages handle_new_global has taken up
    call       \* the last call made of the registry alone, and what it gave

vars == <<actors, mutex, srv, chan, host, cl, inbuf, w, out, applied, call>>

NoMsg == [kind |-> "None", id |-> 0, sender |-> <<>>]
ServerExitMsg == [kind |-> "ServerExitMsg", id |-> 0, sender |-> <<>>]
NewGlobal(id, sender) == [kind |-> "NewGlobal", id |-> id, sender |-> sender]

Client0 ==
    [state |-> "none", greeted |-> FALSE, kind |-> "", script |-> <<>>, fin |-> FALSE]

Worker0 == [pc |-> "none", json_packet |-> JNull, err |-> ""]

\* a call of the registry: the method, its arguments, whether the name was
\* bound, whether the call failed, and what it returned
NoCall ==
    [op |-> "none", name |-> <<>>, type |-> "", arg |-> NoActor, had |-> FALSE,
     panic |-> FALSE, data |-> NoActor]

Init ==
    \* run_server up to its loop: the registry holds the root actor
    /\ actors = register(ActorRegistry_new, RootActor(0, <<>>))
    /\ mutex = Mutex_new
    /\ srv = [pc |-> "accept", msg |-> NoMsg, tab |-> NoActor, console |-> NoActor]
    /\ chan = <<>>
    /\ host = [sent |-> 0, alive |-> TRUE, exit |-> FALSE]
    /\ cl = [s \in Conn |-> Client0]
    /\ inbuf = [s \in Conn |-> <<>>]
    /\ w = [s \in Conn |-> Worker0]
    /\ out = [s \in Conn |-> <<>>]
    /\ applied = <<>>
    /\ call = NoCall

(***************************************************************************)
(* The embedding host and the clients.                                     *)
(***************************************************************************)
\* the host is followed until the server task ends
ServerRuns == srv.pc \notin {"stopped", "failed"}

\* the host announces a new script global, be the server running or not
HostNewGlobal ==
    /\ host.alive
    /\ host.sent < MaxTargets
    /\ LET id == PipelineIds[host.sent + 1]
       IN  chan' = Append(chan, NewGlobal(id, ScriptChan(id)))
    /\ host' = [host EXCEPT !.sent = @ + 1]
    /\ UNCHANGED <<actors, mutex, srv, cl, inbuf, w, out, applied, call>>

\* the host asks the server to exit
HostExit ==
    /\ ServerRuns
    /\ host.alive
    /\ ~host.exit
    /\ chan' = Append(chan, ServerExitMsg)
    /\ host' = [host EXCEPT !.exit = TRUE]
    /\ UNCHANGED <<actors, mutex, srv, cl, inbuf, w, out, applied, call>>

\* the host drops its Sender
HostDrop ==
    /\ ServerRuns
    /\ host.alive
    /\ ~host.exit
    /\ host' = [host EXCEPT !.alive = FALSE]
    /\ UNCHANGED <<actors, mutex, srv, chan, cl, inbuf, w, out, applied, call>>

\* a client connects; connections are numbered in the order they are opened
ClientConnect(s) ==
    /\ cl[s].state = "none"
    /\ IF s = 1 THEN TRUE ELSE cl[s - 1].state # "none"
    /\ cl' = [cl EXCEPT ![s].state = "pending"]
    /\ UNCHANGED <<actors, mutex, srv, chan, host, inbuf, w, out, applied, call>>

\* a client receives the next packet the server wrote; the first is the greeting
ClientRecv(s) ==
    /\ cl[s].state = "open"
    /\ out[s] # <<>>
    /\ out' = [out EXCEPT ![s] = Tail(@)]
    /\ cl' = [cl EXCEPT ![s].greeted = TRUE]
    /\ UNCHANGED <<actors, mutex, srv, chan, host, inbuf, w, applied, call>>

\* a client that has the greeting starts to talk: the first chunk of a script
ClientStart(s, k) ==
    /\ cl[s].state = "open"
    /\ cl[s].greeted
    /\ cl[s].kind = ""
    /\ cl' = [cl EXCEPT ![s].kind = k, ![s].script = Tail(Scripts[k])]
    /\ inbuf' = [inbuf EXCEPT ![s] = Head(Scripts[k])]
    /\ UNCHANGED <<actors, mutex, srv, chan, host, w, out, applied, call>>

\* a client sends its next chunk
ClientSend(s) ==
    /\ cl[s].state = "open"
    /\ ~cl[s].fin
    /\ cl[s].script # <<>>
    /\ Len(inbuf[s]) <= Window
    /\ inbuf' = [inbuf EXCEPT ![s] = @ \o Head(cl[s].script)]
    /\ cl' = [cl EXCEPT ![s].script = Tail(@)]
    /\ UNCHANGED <<actors, mutex, srv, chan, host, w, out, applied, call>>

\* a client of a kind that hangs up does so when it has sent its script; the
\* others wait for the server
ClientClose(s) ==
    /\ cl[s].state = "open"
    /\ ~cl[s].fin
    /\ cl[s].kind \in HangsUp
    /\ cl[s].script = <<>>
    /\ cl' = [cl EXCEPT ![s].fin = TRUE]
    /\ UNCHANGED <<actors, mutex, srv, chan, host, inbuf, w, out, applied, call>>

(***************************************************************************)
(* run_server's loop.                                                      *)
(***************************************************************************)
\* (mutant) the loop goes on after the exit message
Serving_afterStop == srv.pc \in {"accept", "stopped"}

\* the loop is at acceptor.incoming()
Serving == srv.pc = "accept"

\* Ok(stream): a task is spawned for the connection
AcceptOk(s) ==
    /\ Serving
    /\ cl[s].state = "pending"
    /\ cl' = [cl EXCEPT ![s].state = "open"]
    /\ w' = [w EXCEPT ![s].pc = "greet_lock"]
    /\ UNCHANGED <<actors, mutex, srv, chan, host, inbuf, out, applied, call>>

\* Err(TimedOut): port.try_recv(), once. (Empty re-arms the accept timeout,
\* which this model does not track: every accept may time out.)
AcceptTimedOut ==
    /\ Serving
    /\ IF chan # <<>>
       THEN /\ chan' = Tail(chan)
            /\ IF Head(chan).kind = "ServerExitMsg"
               THEN srv' = [srv EXCEPT !.pc = "stopped"]
               ELSE srv' = [srv EXCEPT !.pc = "ng_lock", !.msg = Head(chan)]
       ELSE /\ chan' = chan
            /\ IF ~host.alive
               THEN srv' = [srv EXCEPT !.pc = "stopped"]
               ELSE srv' = srv
    /\ UNCHANGED <<actors, mutex, host, cl, inbuf, w, out, applied, call>>

\* (mutant) an accept that fails ends the loop
AcceptErr_fatal(s) ==
    /\ Serving
    /\ cl[s].state = "pending"
    /\ cl' = [cl EXCEPT ![s].state = "aborted"]
    /\ srv' = [srv EXCEPT !.pc = "stopped"]
    /\ UNCHANGED <<actors, mutex, chan, host, inbuf, w, out, applied, call>>

\* Err(_e): the connection failed (it was reset while it waited to be
\* accepted, say) and is gone; the loop goes on. An accept that fails with
\* no connection lost changes nothing at all.
AcceptErr(s) ==
    /\ Serving
    /\ cl[s].state = "pending"
    /\ cl' = [cl EXCEPT ![s].state = "aborted"]
    /\ UNCHANGED <<actors, mutex, srv, chan, host, inbuf, w, out, applied, call>>

(***************************************************************************)
(* handle_new_global, statement by statement.                              *)
(***************************************************************************)
\* actors.lock()
NewGlobalLock ==
    /\ srv.pc = "ng_lock"
    /\ Mutex_free(mutex)
    /\ IF mutex.failed
       THEN /\ srv' = [srv EXCEPT !.pc = "failed", !.msg = NoMsg]
            /\ UNCHANGED <<mutex, applied>>
       ELSE /\ mutex' = [mutex EXCEPT !.holder = ServerTask]
            /\ srv' = [srv EXCEPT !.pc = "ng_alloc"]
            /\ applied' = Append(applied, srv.msg)
    /\ UNCHANGED <<actors, chan, host, cl, inbuf, w, out, call>>

\* the tab and console actors named after root.next (and, as a mutant, the
\* console actor named like the tab)
NewTab(root) == TabActor(FormatName(S_tab, root.next), <<>>, "about:blank")
NewConsole_asTab(root, msg) ==
    ConsoleActor(FormatName(S_tab, root.next), msg.sender, msg.id)
NewConsole(root, msg) ==
    ConsoleActor(FormatName(S_console, root.next), msg.sender, msg.id)

\* (mutant) the counter is left as it is
RootBump_none(root) == root

\* root.next += 1
RootBump(root) == [root EXCEPT !.next = @ + 1]

\* find_mut("root"), the two actors, root.next += 1
NewGlobalAlloc ==
    /\ srv.pc = "ng_alloc"
    /\ srv' = [srv EXCEPT !.pc = "ng_push",
                          !.tab = NewTab(actors[S_root]),
                          !.console = NewConsole(actors[S_root], srv.msg)]
    /\ actors' = [actors EXCEPT ![S_root] = RootBump(@)]
    /\ UNCHANGED <<mutex, chan, host, cl, inbuf, w, out, applied, call>>

\* root.tabs.push(tab.name.clone())
NewGlobalPush ==
    /\ srv.pc = "ng_push"
    /\ actors' = [actors EXCEPT ![S_root].tabs = Append(@, srv.tab.name)]
    /\ srv' = [srv EXCEPT !.pc = "ng_reg_tab"]
    /\ UNCHANGED <<mutex, chan, host, cl, inbuf, w, out, applied, call>>

\* actors.register(box tab)
NewGlobalRegisterTab ==
    /\ srv.pc = "ng_reg_tab"
    /\ actors' = register(actors, srv.tab)
    /\ srv' = [srv EXCEPT !.pc = "ng_reg_console", !.tab = NoActor]
    /\ UNCHANGED <<mutex, chan, host, cl, inbuf, w, out, applied, call>>

\* actors.register(box console), and the guard goes out of scope
NewGlobalRegisterConsole ==
    /\ srv.pc = "ng_reg_console"
    /\ actors' = register(actors, srv.console)
    /\ mutex' = Mutex_unlock(mutex)
    /\ srv' = [srv EXCEPT !.pc = "accept", !.console = NoActor, !.msg = NoMsg]
    /\ UNCHANGED <<chan, host, cl, inbuf, w, out, applied, call>>

(***************************************************************************)
(* handle_client.                                                          *)
(***************************************************************************)
\* the task of connection s ends and its stream is dropped: the socket closes
StreamDropped(s) ==
    /\ cl' = [cl EXCEPT ![s] = [Client0 EXCEPT !.state = "closed"]]
    /\ inbuf' = [inbuf EXCEPT ![s] = <<>>]
    /\ out' = [out EXCEPT ![s] = <<>>]

\* the task of connection s fails: it unwinds, dropping the guard it holds
TaskFail(s, why) ==
    /\ w' = [w EXCEPT ![s] = [pc |-> "failed", json_packet |-> JNull, err |-> why]]
    /\ mutex' = Mutex_unwind(mutex, WorkerTask(s))
    /\ StreamDropped(s)

\* handle_client returns
TaskReturn(s, why) ==
    /\ w' = [w EXCEPT ![s] = [pc |-> "closed", json_packet |-> JNull, err |-> why]]
    /\ mutex' = mutex
    /\ StreamDropped(s)

\* (mutant) the registry is used without the lock
WorkerLock_unlocked(s, at, to) ==
    /\ w[s].pc = at
    /\ w' = [w EXCEPT ![s].pc = to]
    /\ UNCHANGED <<actors, mutex, srv, chan, host, cl, inbuf, out, applied, call>>

\* actors.lock() at pc `at`, which leads to pc `to`
WorkerLock(s, at, to) ==
    /\ w[s].pc = at
    /\ Mutex_free(mutex)
    /\ IF mutex.failed
       THEN TaskFail(s, "poisoned")
       ELSE /\ mutex' = [mutex EXCEPT !.holder = WorkerTask(s)]
            /\ w' = [w EXCEPT ![s].pc = to]
            /\ UNCHANGED <<cl, inbuf, out>>
    /\ UNCHANGED <<actors, srv, chan, host, applied, call>>

\* the greeting block: let mut actors = actors.lock();
GreetLock(s) == WorkerLock(s, "greet_lock", "greet")

\* find::<RootActor>("root").encodable(), write_json_packet, end of the block
Greet(s) ==
    /\ w[s].pc = "greet"
    /\ IF find_ok(actors, S_root)
       THEN /\ out' = [out EXCEPT ![s] = Append(@, Root_encodable(actors[S_root]))]
            /\ mutex' = Mutex_unlock(mutex)
            /\ w' = [w EXCEPT ![s].pc = "read"]
            /\ UNCHANGED <<cl, inbuf>>
       ELSE TaskFail(s, "no root")
    /\ UNCHANGED <<actors, srv, chan, host, applied, call>>

\* one turn of the 'outer loop up to the call of handle_message: the bytes of
\* the next packet are read and decoded, or the loop is left
DecodeNext(s) ==
    /\ w[s].pc = "read"
    /\ inbuf[s] # <<>> \/ cl[s].fin
    /\ \E f \in {read_packet(inbuf[s], cl[s].fin)} :
           /\ f.status # "blocked"
           /\ IF f.status = "ok"
              THEN /\ w' = [w EXCEPT ![s].pc = "lock", ![s].json_packet = f.json]
                   /\ inbuf' = [inbuf EXCEPT ![s] = f.rest]
                   /\ UNCHANGED <<mutex, cl, out>>
              ELSE IF f.status = "eof"
              THEN TaskReturn(s, "EOF")
              ELSE TaskFail(s, f.status)
    /\ UNCHANGED <<actors, srv, chan, host, applied, call>>

\* stream.read_byte() returns an error that is not EndOfFile
ReadError(s) ==
    /\ w[s].pc = "read"
    /\ TaskReturn(s, "connection error")
    /\ UNCHANGED <<actors, srv, chan, host, applied, call>>

\* actors.lock(), the receiver of the call of handle_message
DispatchLock(s) == WorkerLock(s, "lock", "dispatch")

\* (mutant) a dispatch counts in the root actor
Dispatch_bumpsRoot(s) ==
    /\ w[s].pc = "dispatch"
    /\ IF w[s].json_packet.kind # "Object"
       THEN TaskFail(s, "not an object") /\ UNCHANGED actors
       ELSE LET r == handle_message(actors, w[s].json_packet.obj)
            IN  IF r.panic
                THEN TaskFail(s, r.res) /\ UNCHANGED actors
                ELSE /\ Len(out[s]) + Len(r.reply) <= OutWindow
                     /\ out' = [out EXCEPT ![s] = @ \o r.reply]
                     /\ mutex' = Mutex_unlock(mutex)
                     /\ w' = [w EXCEPT ![s].pc = "read", ![s].json_packet = JNull]
                     /\ actors' = [actors EXCEPT ![S_root].next =
                                      IF r.res = "handled" THEN @ + 1 ELSE @]
                     /\ UNCHANGED <<cl, inbuf>>
    /\ UNCHANGED <<srv, chan, host, applied, call>>

\* (mutant) the actor's write never blocks
Dispatch_neverBlocks(s) ==
    /\ w[s].pc = "dispatch"
    /\ IF w[s].json_packet.kind # "Object"
       THEN TaskFail(s, "not an object")
       ELSE LET r == handle_message(actors, w[s].json_packet.obj)
            IN  IF r.panic
                THEN TaskFail(s, r.res)
                ELSE /\ out' = [out EXCEPT ![s] = @ \o r.reply]
                     /\ mutex' = Mutex_unlock(mutex)
                     /\ w' = [w EXCEPT ![s].pc = "read", ![s].json_packet = JNull]
                     /\ UNCHANGED <<cl, inbuf>>
    /\ UNCHANGED <<actors, srv, chan, host, applied, call>>

\* json_packet.as_object().unwrap() and handle_message, with the guard alive;
\* the guard is dropped at the end of the statement
Dispatch(s) ==
    /\ w[s].pc = "dispatch"
    /\ IF w[s].json_packet.kind # "Object"
       THEN TaskFail(s, "not an object")
       ELSE LET r == handle_message(actors, w[s].json_packet.obj)
            IN  IF r.panic
                THEN TaskFail(s, r.res)
                ELSE \* the actor's write blocks while the socket is full
                     /\ Len(out[s]) + Len(r.reply) <= OutWindow
                     /\ out' = [out EXCEPT ![s] = @ \o r.reply]
                     /\ mutex' = Mutex_unlock(mutex)
                     /\ w' = [w EXCEPT ![s].pc = "read", ![s].json_packet = JNull]
                     /\ UNCHANGED <<cl, inbuf>>
    /\ UNCHANGED <<actors, srv, chan, host, applied, call>>

(***************************************************************************)
(* The specification.                                                      *)
(***************************************************************************)
Next ==
    \/ HostNewGlobal
    \/ HostExit
    \/ HostDrop
    \/ \E s \in Conn : ClientConnect(s)
    \/ \E s \in Conn : ClientRecv(s)
    \/ \E s \in Conn, k \in ScriptKinds : ClientStart(s, k)
    \/ \E s \in Conn : ClientSend(s)
    \/ \E s \in Conn : ClientClose(s)
    \/ \E s \in Conn : AcceptOk(s)
    \/ AcceptTimedOut
    \/ \E s \in Conn : AcceptErr(s)
    \/ NewGlobalLock
    \/ NewGlobalAlloc
    \/ NewGlobalPush
    \/ NewGlobalRegisterTab
    \/ NewGlobalRegisterConsole
    \/ \E s \in Conn : GreetLock(s)
    \/ \E s \in Conn : Greet(s)
    \/ \E s \in Conn : DecodeNext(s)
    \/ \E s \in Conn : ReadError(s)
    \/ \E s \in Conn : DispatchLock(s)
    \/ \E s \in Conn : Dispatch(s)

Spec == Init /\ [][Next]_vars

\* The connections of the runs that are followed to their end
MaxLiveConn == 1
LiveConn == 1..MaxLiveConn

\* the server task's own steps
ServerStep ==
    \/ AcceptTimedOut
    \/ NewGlobalLock
    \/ NewGlobalAlloc
    \/ NewGlobalPush
    \/ NewGlobalRegisterTab
    \/ NewGlobalRegisterConsole

\* the steps of the task of connection s
WorkerStep(s) ==
    \/ GreetLock(s)
    \/ Greet(s)
    \/ DecodeNext(s)
    \/ DispatchLock(s)
    \/ Dispatch(s)

LiveNext ==
    \/ HostNewGlobal
    \/ HostExit
    \/ HostDrop
    \/ \E s \in LiveConn : ClientConnect(s)
    \/ \E s \in LiveConn : ClientRecv(s)
    \/ \E s \in LiveConn, k \in ScriptKinds : ClientStart(s, k)
    \/ \E s \in LiveConn : ClientSend(s)
    \/ \E s \in LiveConn : ClientClose(s)
    \/ \E s \in LiveConn : AcceptOk(s)
    \/ \E s \in LiveConn : AcceptErr(s)
    \/ ServerStep
    \/ \E s \in LiveConn : WorkerStep(s)
    \/ \E s \in LiveConn : ReadError(s)

\* The tasks are scheduled: the server task and every connection task that can
\* take its next step takes it in the end, and an accept that finds no
\* connection times out. Nothing is asked of the host or of the clients.
\* For the decoding step the condition is written out, with the step's guard
\* in the place of ENABLED: it is WF_vars(DecodeNext(s)).
LockedStep(s) == GreetLock(s) \/ Greet(s) \/ DispatchLock(s) \/ Dispatch(s)

DecodeReady(s) ==
    /\ w[s].pc = "read"
    /\ inbuf[s] # <<>> \/ cl[s].fin
    /\ read_packet(inbuf[s], cl[s].fin).status # "blocked"

Fairness ==
    /\ WF_vars(ServerStep)
    /\ \A s \in LiveConn :
          /\ WF_vars(LockedStep(s))
          /\ ([]<>~DecodeReady(s)) \/ ([]<><<DecodeNext(s)>>_vars)

FairSpec == Init /\ [][LiveNext]_vars /\ Fairness

(***************************************************************************)
(* The registry alone: its methods called with any actor, name and type.   *)
(***************************************************************************)
ActorTypes == {"Root", "Tab", "Console"}

RegNames == {S_root, FormatName(S_tab, 0), FormatName(S_console, 0)}

RegActors ==
    {RootActor(0, <<>>), RootActor(1, <<FormatName(S_tab, 0)>>)}
        \cup {TabActor(n, <<>>, "about:blank") : n \in RegNames}
        \cup {ConsoleActor(n, ScriptChan(7), 7) : n \in RegNames}

\* registry.register(actor)
CallRegister(a) ==
    /\ actors' = register(actors, a)
    /\ call' = [op |-> "register", name |-> Actor_name(a), type |-> a.kind,
                arg |-> a, had |-> Actor_name(a) \in DOMAIN actors,
                panic |-> FALSE, data |-> NoActor]
    /\ UNCHANGED <<mutex, srv, chan, host, cl, inbuf, w, out, applied>>

\* registry.find::<T>(name)
CallFind(name, T) ==
    /\ call' = [op |-> "find", name |-> name, type |-> T, arg |-> NoActor,
                had |-> name \in DOMAIN actors,
                panic |-> find(actors, name, T).panic,
                data |-> find(actors, name, T).data]
    /\ UNCHANGED <<actors, mutex, srv, chan, host, cl, inbuf, w, out, applied>>

\* registry.find_mut::<T>(name)
CallFindMut(name, T) ==
    /\ call' = [op |-> "find_mut", name |-> name, type |-> T, arg |-> NoActor,
                had |-> name \in DOMAIN actors,
                panic |-> find_mut(actors, name, T).panic,
                data |-> find_mut(actors, name, T).data]
    /\ UNCHANGED <<actors, mutex, srv, chan, host, cl, inbuf, w, out, applied>>

RegNext ==
    \/ \E a \in RegActors : CallRegister(a)
    \/ \E name \in RegNames, T \in ActorTypes : CallFind(name, T)
    \/ \E name \in RegNames, T \in ActorTypes : CallFindMut(name, T)

RegSpec == Init /\ [][RegNext]_vars

TypeOK ==
    /\ mutex.holder \in {NoTask, ServerTask} \cup {WorkerTask(s) : s \in Conn}
    /\ mutex.failed \in BOOLEAN
    /\ S_root \in DOMAIN actors
    /\ \A s \in Conn : w[s].pc \in {"none", "greet_lock", "greet", "read", "lock",
                                    "dispatch", "closed", "failed"}
    /\ srv.pc \in {"accept", "ng_lock", "ng_alloc", "ng_push", "ng_reg_tab",
                   "ng_reg_console", "stopped", "failed"}

(***************************************************************************)
(* What the claims speak of.                                               *)
(***************************************************************************)
\* the tasks inside the registry's critical section
ServerInCS == srv.pc \in {"ng_alloc", "ng_push", "ng_reg_tab", "ng_reg_console"}
WorkerInCS(s) == w[s].pc \in {"greet", "dispatch"}

\* the registry as a NewGlobal leaves it: the counter, the target list and
\* the two actors of every target agree
RegistryWhole ==
    LET root == actors[S_root]
    IN  /\ Len(root.tabs) = root.next
        /\ \A i \in 0..(root.next - 1) :
              /\ root.tabs[i + 1] = FormatName(S_tab, i)
              /\ FormatName(S_tab, i) \in DOMAIN actors
              /\ FormatName(S_console, i) \in DOMAIN actors

\* the packet worker s is dispatching is an object whose `to` is a string
HasTo(s) ==
    /\ w[s].json_packet.kind = "Object"
    /\ S_to \in DOMAIN w[s].json_packet.obj
    /\ w[s].json_packet.obj[S_to].kind = "String"
HasType(s) ==
    /\ w[s].json_packet.kind = "Object"
    /\ S_type \in DOMAIN w[s].json_packet.obj
    /\ w[s].json_packet.obj[S_type].kind = "String"
ToOf(s) == w[s].json_packet.obj[S_to].str
TypeOf(s) == w[s].json_packet.obj[S_type].str

\* worker s takes a step out of the dispatch it is in
Dispatches(s) == w[s].pc = "dispatch" /\ w'[s] # w[s]

\* a step leaves every connection other than s, and the server task, alone
OthersUntouched(s) ==
    /\ srv' = srv
    /\ chan' = chan
    /\ applied' = applied
    /\ \A t \in Conn \ {s} :
          w'[t] = w[t] /\ cl'[t] = cl[t] /\ inbuf'[t] = inbuf[t] /\ out'[t] = out[t]

\* a step of worker s back to its read loop, the lock released and sound
BackToRead(s) ==
    /\ w'[s].pc = "read"
    /\ mutex' = Mutex_new
    /\ cl'[s] = cl[s]
    /\ inbuf'[s] = inbuf[s]

(***************************************************************************)
(* C1. A fault inside the registry's dispatch (an unwrap() of              *)
(* handle_message that fails while the worker holds the lock) ends only    *)
(* that worker: the lock is released and stays usable, the registry is as  *)
(* before, and no other task is touched.                                   *)
(***************************************************************************)
C1_DispatchFaultIsolated ==
    [][\A s \in Conn :
          (Dispatches(s) /\ w'[s].pc = "failed" /\ w'[s].err \in {"no to", "no type"})
              => /\ mutex' = Mutex_new
                 /\ actors' = actors
                 /\ OthersUntouched(s)]_vars

(***************************************************************************)
(* C2. A framed packet whose payload is JSON but no object closes only its *)
(* connection: nothing is dispatched, the registry is unchanged and the    *)
(* lock can still be acquired by every other task.                         *)
(***************************************************************************)
C2_NonObjectLocal ==
    \A s \in Conn :
        (w[s].pc = "failed" /\ w[s].err = "not an object")
            => /\ ~mutex.failed
               /\ \A t \in Conn : w[t].err # "poisoned"
               /\ srv.pc # "failed"

(***************************************************************************)
(* C3. A framing error, a truncated packet, a payload that is not UTF-8 or *)
(* not JSON, and the end of the stream in a length prefix end the worker   *)
(* in its read loop: it holds no lock, the mutex and the registry are left *)
(* as they are, and no other task is touched.                              *)
(***************************************************************************)
ReadLoopEnds ==
    {"length not utf8", "length not a number", "truncated", "packet not utf8",
     "packet not json", "EOF", "connection error"}

C3_FramingErrorsLocal ==
    [][\A s \in Conn :
          (w[s].pc = "read" /\ w'[s].pc \in {"failed", "closed"})
              => /\ w'[s].err \in ReadLoopEnds
                 /\ (w'[s].pc = "closed") = (w'[s].err \in {"EOF", "connection error"})
                 /\ mutex.holder # WorkerTask(s)
                 /\ mutex' = mutex
                 /\ actors' = actors
                 /\ OthersUntouched(s)]_vars

\* a worker has failed on a truncated packet, one on a bad length prefix is
\* gone too, and the lock is sound
C3_Witness ==
    /\ w[1].pc = "failed" /\ w[1].err = "truncated"
    /\ w[2].pc = "failed" /\ w[2].err = "length not a number"
    /\ mutex = Mutex_new

(***************************************************************************)
(* C4. Whenever the lock is free, with K NewGlobal messages taken up the   *)
(* root's counter is K, its target list is tab0 .. tab{K-1} in order, and  *)
(* the registry holds exactly root and, for each i < K, the tab actor      *)
(* tab{i} and the console actor console{i} bound to the pipeline and the   *)
(* sender of the i-th message.                                             *)
(***************************************************************************)
C4_NewTargetAllocation ==
    Mutex_free(mutex) =>
        LET root == actors[S_root]
            K == Len(applied)
        IN  /\ root.next = K
            /\ root.tabs = [i \in 1..K |-> FormatName(S_tab, i - 1)]
            /\ DOMAIN actors =
                  {S_root} \cup {FormatName(S_tab, i) : i \in 0..(K - 1)}
                           \cup {FormatName(S_console, i) : i \in 0..(K - 1)}
            /\ \A i \in 0..(K - 1) :
                  /\ actors[FormatName(S_tab, i)] =
                        TabActor(FormatName(S_tab, i), <<>>, "about:blank")
                  /\ actors[FormatName(S_console, i)] =
                        ConsoleActor(FormatName(S_console, i), applied[i + 1].sender,
                                     applied[i + 1].id)

\* two NewGlobal messages have been applied and the lock is free
C4_Witness == Mutex_free(mutex) /\ Len(applied) = 2 /\ srv.pc = "accept"

(***************************************************************************)
(* C5. At most one of the server's NewGlobal registration, a worker's      *)
(* greeting and a worker's dispatch is inside the critical section, and    *)
(* the one that is holds the mutex.                                        *)
(***************************************************************************)
C5_MutualExclusion ==
    /\ Cardinality({s \in Conn : WorkerInCS(s)}) + (IF ServerInCS THEN 1 ELSE 0) <= 1
    /\ ServerInCS => mutex.holder = ServerTask
    /\ \A s \in Conn : WorkerInCS(s) => mutex.holder = WorkerTask(s)

\* the server is registering while one worker waits to dispatch and another
\* to greet
C5_Witness ==
    /\ ServerInCS
    /\ \E s, t \in Conn : w[s].pc = "lock" /\ w[t].pc = "greet_lock"

(***************************************************************************)
(* C6. A greeting or a dispatch sees the registry before or after a        *)
(* NewGlobal registration, never in between: while a worker is in its      *)
(* critical section the counter, the target list and the registered tab    *)
(* and console actors agree, and so does the target list of a greeting     *)
(* that has been written.                                                  *)
(***************************************************************************)
C6_NewTargetAtomic ==
    \A s \in Conn :
        /\ WorkerInCS(s) => RegistryWhole
        /\ \A i \in 1..Len(out[s]) :
              "tabs" \in DOMAIN out[s][i] =>
                  \E k \in 0..Len(applied) :
                      out[s][i].tabs = [j \in 1..k |-> FormatName(S_tab, j - 1)]

\* the registry is between two states (the counter is ahead of the target
\* list) while a worker waits for the lock to greet
C6_Witness ==
    /\ srv.pc = "ng_push"
    /\ ~RegistryWhole
    /\ \E s \in Conn : w[s].pc = "greet_lock"

(***************************************************************************)
(* C7. The dispatch of a message whose `to` names no registered actor,     *)
(* whatever its other fields, does not fail: no reply is written, the      *)
(* registry is unchanged, the lock is released sound and the worker is     *)
(* back in its read loop with its stream as it was.                        *)
(***************************************************************************)
C7_UnknownTargetSafe ==
    [][\A s \in Conn :
          (Dispatches(s) /\ HasTo(s) /\ ToOf(s) \notin DOMAIN actors)
              => /\ BackToRead(s)
                 /\ out'[s] = out[s]
                 /\ actors' = actors
                 /\ OthersUntouched(s)]_vars

\* after its messages to an unknown actor, a connection has the root's reply
\* to its listTabs
C7_Witness ==
    \E s \in Conn :
        /\ cl[s].kind = "normal"
        /\ out[s] = <<[from |-> S_root, reply_to |-> S_listTabs]>>

(***************************************************************************)
(* C8. The dispatch of a message whose `to` names a registered actor that  *)
(* does not know the message type does not fail: the registry is           *)
(* unchanged, the lock is released sound and the worker is back in its     *)
(* read loop with its stream as it was.                                    *)
(***************************************************************************)
C8_UnhandledTypeSafe ==
    [][\A s \in Conn :
          (/\ Dispatches(s) /\ HasTo(s) /\ HasType(s)
           /\ ToOf(s) \in DOMAIN actors
           /\ ~Actor_handle_message(actors[ToOf(s)], TypeOf(s)).handled)
              => /\ BackToRead(s)
                 /\ out'[s] = out[s]
                 /\ actors' = actors
                 /\ OthersUntouched(s)]_vars

\* after its message of an unknown type, a connection has its attach message
\* to the registered tab0 in dispatch
C8_Witness ==
    \E s \in Conn :
        /\ cl[s].kind = "normal"
        /\ w[s].pc = "dispatch"
        /\ ToOf(s) = FormatName(S_tab, 0)
        /\ ToOf(s) \in DOMAIN actors

(***************************************************************************)
(* C9. An object that lacks `type`, or lacks `to`, is logged and ignored:  *)
(* the connection stays open, and no other connection is affected.         *)
(***************************************************************************)
C9_MissingFieldIgnored ==
    \A s \in Conn : ~(w[s].pc = "failed" /\ w[s].err \in {"no to", "no type"})

(***************************************************************************)
(* C10. Once the server loop has read the exit message or found the        *)
(* channel disconnected it stays stopped: no connection is accepted, no    *)
(* worker is spawned, no message is taken from the channel and no          *)
(* NewGlobal is applied; and the step that stops it changes nothing of any *)
(* worker, connection or the lock.                                         *)
(***************************************************************************)
C10_ShutdownTerminal ==
    [][/\ srv.pc = "stopped"
          => /\ srv' = srv
             /\ Len(chan') >= Len(chan)
             /\ SubSeq(chan', 1, Len(chan)) = chan
             /\ applied' = applied
             /\ actors' = actors
             /\ \A s \in Conn : w[s].pc = "none" => w'[s].pc = "none"
             /\ \A s \in Conn : cl[s].state = "pending" => cl'[s].state = "pending"
       /\ (srv.pc # "stopped" /\ srv'.pc = "stopped")
          => /\ srv.pc = "accept"
             /\ w' = w /\ cl' = cl /\ inbuf' = inbuf /\ out' = out
             /\ mutex' = mutex /\ actors' = actors /\ applied' = applied]_vars

\* the server has stopped with a NewGlobal unread, a connection unaccepted,
\* and a worker that is dispatching
C10_Witness ==
    /\ srv.pc = "stopped"
    /\ chan # <<>>
    /\ \E s, t \in Conn : w[s].pc = "dispatch" /\ cl[t].state = "pending"

(***************************************************************************)
(* C11. Once the host has sent the exit message, or has dropped its        *)
(* sender, the server loop comes to its end, whatever the connections and  *)
(* the open sessions do. (The claim has it reach the stopped state; here   *)
(* even a server task that has failed counts as ended.)                    *)
(***************************************************************************)
C11_ShutdownLiveness ==
    (host.exit \/ ~host.alive) ~> (srv.pc \in {"stopped", "failed"})

(***************************************************************************)
(* C12. find and find_mut are type-checked: a lookup of a name that is not *)
(* registered, or whose actor is of another type than the one asked for,   *)
(* fails; a lookup that returns gives the registered actor, which is of    *)
(* the type asked for.                                                     *)
(***************************************************************************)
C12_FindTypeChecked ==
    call.op \in {"find", "find_mut"} =>
        IF call.had /\ actors[call.name].kind = call.type
        THEN ~call.panic /\ call.data = actors[call.name]
        ELSE call.panic

(***************************************************************************)
(* C13. register(a) binds a's name to a, replacing the actor the name was  *)
(* bound to; every other binding is as before, and the number of bindings  *)
(* grows by one exactly when the name was new.                             *)
(***************************************************************************)
C13_RegisterOverwrites ==
    [][call'.op = "register" =>
          LET name == call'.name
          IN  /\ name = Actor_name(call'.arg)
              /\ call'.had = (name \in DOMAIN actors)
              /\ actors'[name] = call'.arg
              /\ DOMAIN actors' = DOMAIN actors \cup {name}
              /\ \A n \in DOMAIN actors \ {name} : actors'[n] = actors[n]
              /\ Cardinality(DOMAIN actors') =
                    Cardinality(DOMAIN actors) + (IF call'.had THEN 0 ELSE 1)]_vars

\* a console actor has been registered under the name the root actor had
C13_Witness ==
    /\ call.op = "register"
    /\ call.had
    /\ call.name = S_root
    /\ call.arg.kind = "Console"
    /\ actors[S_root] = call.arg
    /\ Cardinality(DOMAIN actors) = 3

(***************************************************************************)
(* C14. Every connection task sends one greeting, the root actor's         *)
(* descriptor read under the lock, before it reads or dispatches a packet: *)
(* a task that is spawned goes to the lock of the greeting block, from     *)
(* there into the block, and from the block to its read loop with the      *)
(* greeting written, whose target list is tab0 .. tab{k-1} for the k       *)
(* NewGlobal messages taken up; no greeting is written anywhere else, and  *)
(* nothing is decoded or dispatched before.                                *)
(***************************************************************************)
GreetingWritten(s) ==
    /\ out'[s] = Append(out[s], Root_encodable(actors[S_root]))
    /\ Root_encodable(actors[S_root]).tabs =
          [i \in 1..Len(applied) |-> FormatName(S_tab, i - 1)]

C14_OrderOfSteps(s) ==
    /\ (w[s].pc = "none" /\ w'[s].pc # "none") => w'[s].pc = "greet_lock"
    /\ (w[s].pc = "greet" /\ w'[s] # w[s])
          => /\ w'[s].pc = "read"
             /\ mutex.holder = WorkerTask(s)
             /\ GreetingWritten(s)
    /\ (w[s].pc # "greet" /\ Len(out'[s]) > Len(out[s]))
          => "tabs" \notin DOMAIN out'[s][Len(out'[s])]
    /\ (w'[s].pc \in {"read", "lock", "dispatch"} /\ w'[s] # w[s])
          => w[s].pc \in {"greet", "read", "lock", "dispatch"}

\* C14: every connection task writes the greeting, once, under the lock,
\* before it reads or dispatches anything
C14_GreetingFirst ==
    [][\A s \in Conn :
          /\ C14_OrderOfSteps(s)
          /\ (w[s].pc = "greet_lock" /\ w'[s] # w[s])
                => w'[s].pc = "greet" /\ mutex'.holder = WorkerTask(s)]_vars

(***************************************************************************)
(* C15. An accept that fails otherwise than by its timeout leaves the      *)
(* server at its accept loop: the registry and the lock are unchanged, no  *)
(* task is spawned, no control message is taken from the channel.          *)
(***************************************************************************)
C15_AcceptErrorsNonFatal ==
    [][\A s \in Conn :
          (cl[s].state = "pending" /\ cl'[s].state = "aborted")
              => /\ Serving
                 /\ srv' = srv
                 /\ actors' = actors
                 /\ mutex' = mutex
                 /\ chan' = chan
                 /\ applied' = applied
                 /\ w' = w]_vars

\* the first connection was lost in accept, no task was spawned for it, and
\* the second has been accepted and greeted since
C15_Witness ==
    /\ cl[1].state = "aborted"
    /\ w[1].pc = "none"
    /\ w[2].pc = "read"
    /\ srv.pc = "accept"

(***************************************************************************)
(* C16. A connection task that waits for bytes of its stream does not hold *)
(* the lock: the holder of the lock is inside the greeting block or the    *)
(* dispatch statement, and while no task is there the lock is free, so a   *)
(* task that waits at lock() can take it however silent the clients are.   *)
(***************************************************************************)
C16_NoLockAcrossRead ==
    /\ \A s \in Conn : mutex.holder = WorkerTask(s) => WorkerInCS(s)
    /\ ((\A s \in Conn : ~WorkerInCS(s)) /\ ~ServerInCS)
          => /\ Mutex_free(mutex)
             /\ \A t \in Conn : w[t].pc = "lock" => ENABLED DispatchLock(t)
             /\ srv.pc = "ng_lock" => ENABLED NewGlobalLock

\* the first client is silent, its task waits for a byte; the second task
\* takes the lock for its dispatch all the same
C16_Witness ==
    /\ w[1].pc = "read" /\ inbuf[1] = <<>> /\ ~cl[1].fin /\ cl[1].state = "open"
    /\ w[2].pc = "dispatch"
    /\ mutex.holder = WorkerTask(2)

(***************************************************************************)
(* C17. A connection task whose reply cannot be written, its client not    *)
(* reading, stays in its dispatch with the lock held: it cannot go on, no  *)
(* other task can take the lock for its greeting or its dispatch, and the  *)
(* server task cannot take it for a NewGlobal.                             *)
(***************************************************************************)
WriteBlocked(s) ==
    /\ w[s].pc = "dispatch"
    /\ w[s].json_packet.kind = "Object"
    /\ ~handle_message(actors, w[s].json_packet.obj).panic
    /\ Len(out[s]) + Len(handle_message(actors, w[s].json_packet.obj).reply) > OutWindow

\* C17: a reply blocked on a peer that does not read keeps the lock, and
\* every other taker of the lock waits
C17_BlockedWriteStalls ==
    \A s \in Conn :
        WriteBlocked(s)
            => /\ mutex.holder = WorkerTask(s)
               /\ ~ENABLED Dispatch(s)
               /\ \A t \in Conn \ {s} : ~ENABLED DispatchLock(t) /\ ~ENABLED GreetLock(t)
               /\ ~ENABLED NewGlobalLock

\* the first task is blocked in its write, the second waits with a decoded
\* packet, and the server task waits in handle_new_global
C17_Witness ==
    /\ WriteBlocked(1)
    /\ w[2].pc = "lock"
    /\ srv.pc = "ng_lock"

(***************************************************************************)
(* C18. On a stream of well-formed packets, each the length and the bytes  *)
(* of a JSON object, the connection task takes, for each packet, its       *)
(* length prefix, the colon and exactly the n bytes the prefix counts, and *)
(* begins the next prefix at the next byte; it dispatches each packet      *)
(* once, in the order of the stream, the value dispatched being the object *)
(* the packet spells, and the dispatch returns to the read loop; it reads  *)
(* no byte while a dispatch is under way; and it ends only at the end of   *)
(* the stream, all packets taken, by returning.                            *)
(***************************************************************************)
\* the packets of the script "normal", and the objects they spell
NormalPackets == <<P_unknownTo, P_badType, P_noTypeUnknown, P_listTabs, P_attach0>>

JObj1(k, v) == JObject(k :> JString(v))
JObj2(k1, v1, k2, v2) == JObject((k1 :> JString(v1)) @@ (k2 :> JString(v2)))

NormalJson ==
    <<JObj2(S_to, S_nobody, S_type, S_listTabs),
      JObj2(S_to, S_root, S_type, S_bogus),
      JObj1(S_to, S_nobody),
      JObj2(S_to, S_root, S_type, S_listTabs),
      JObj2(S_to, FormatName(S_tab, 0), S_type, S_attach)>>

RECURSIVE Flatten(_)
Flatten(ss) == IF ss = <<>> THEN <<>> ELSE Head(ss) \o Flatten(Tail(ss))

\* the stream from its packet i + 1 on
FrameTable ==
    [i \in 0..Len(NormalPackets) |->
        Flatten([j \in 1..(Len(NormalPackets) - i) |-> Pkt(NormalPackets[i + j])])]
Frames(i) == FrameTable[i]

\* the bytes of connection s the task has not taken yet
Unread(s) == inbuf[s] \o Flatten(cl[s].script)

\* connection s runs the script "normal"
Normal(s) == cl[s].state = "open" /\ cl[s].kind = "normal"

C18_AtFrame(s) ==
    Normal(s) =>
        \E i \in 0..Len(NormalPackets) :
            /\ Unread(s) = Frames(i)
            /\ w[s].pc \in {"lock", "dispatch"} => i >= 1 /\ w[s].json_packet = NormalJson[i]
            /\ w[s].pc = "read" => w[s].json_packet = JNull

C18_InOrder(s) ==
    Normal(s) =>
        /\ (w[s].pc = "read" /\ w'[s].pc = "lock")
              => \E i \in 1..Len(NormalPackets) :
                     /\ inbuf[s] = Pkt(NormalPackets[i]) \o inbuf'[s]
                     /\ Unread(s) = Frames(i - 1)
                     /\ w'[s].json_packet = NormalJson[i]
        /\ (w[s].pc = "dispatch" /\ w'[s] # w[s])
              => w'[s].pc = "read" /\ inbuf'[s] = inbuf[s]
        /\ (w[s].pc = "lock" /\ w'[s].pc # "failed")
              => w'[s].json_packet = w[s].json_packet /\ Len(inbuf'[s]) >= Len(inbuf[s])
        /\ (w[s].pc = "read" /\ w'[s].pc \in {"closed", "failed"})
              => \/ w'[s].err = "connection error"
                 \/ w'[s].err = "EOF" /\ w'[s].pc = "closed" /\ cl[s].fin /\ Unread(s) = <<>>

\* the scripts that are streams of packets of JSON objects
ObjectStreams == {"normal", "noType", "noTo"}

\* a task on such a stream goes from lock() to its dispatch and from its
\* dispatch back to the read loop
C18_DispatchReturns(s) ==
    cl[s].kind \in ObjectStreams
        => /\ (w[s].pc = "lock" /\ w'[s] # w[s]) => w'[s].pc = "dispatch"
           /\ (w[s].pc = "dispatch" /\ w'[s] # w[s]) => w'[s].pc = "read"

\* C18: packets of objects are framed by their byte count, dispatched once
\* each in order, each dispatch returning before the next read
C18_FramingAndOrder ==
    [][\A s \in Conn :
          C18_AtFrame(s) /\ C18_InOrder(s) /\ C18_DispatchReturns(s)]_vars

(***************************************************************************)
(* C19. No step of a connection task changes the registry: the names       *)
(* bound, the actor under each name, the root's counter and target list    *)
(* change only in steps of handle_new_global, which the server task takes  *)
(* under the lock; so outside of it the counter and the number of bindings *)
(* are those of the NewGlobal messages taken up, whatever was dispatched.  *)
(***************************************************************************)
C19_DispatchKeepsRegistry ==
    [][/\ (w' # w) => actors' = actors
       /\ (actors' # actors)
             => /\ ServerInCS
                /\ mutex.holder = ServerTask
                /\ srv' # srv
                /\ w' = w /\ out' = out
       /\ ~ServerInCS
             => /\ actors[S_root].next = Len(applied)
                /\ Len(actors[S_root].tabs) = Len(applied)
                /\ Cardinality(DOMAIN actors) = 1 + 2 * Len(applied)]_vars

\* two connections have had their requests to two registered actors
\* handled: the root's reply is written to the one, the tab's to the other
C19_Witness ==
    /\ out[1] = <<[from |-> S_root, reply_to |-> S_listTabs]>>
    /\ out[2] = <<[from |-> FormatName(S_tab, 0), reply_to |-> S_attach]>>
    /\ actors[S_root].next = 1

(***************************************************************************)
(* C20. The root actor is registered before the first accept and stays:    *)
(* the lookup of a greeting never fails; no step removes a binding; the    *)
(* root's counter never decreases; and the two names a NewGlobal registers *)
(* (tab{c} and console{c} for the counter c it found) were not bound       *)
(* before, so no actor is ever replaced.                                   *)
(***************************************************************************)
C20_RegistryGrows ==
    [][/\ S_root \in DOMAIN actors /\ actors[S_root].kind = "Root"
       /\ \A s \in Conn : w[s].pc = "greet" => find_ok(actors, S_root)
       /\ \A s \in Conn : w'[s].err # "no root"
       /\ DOMAIN actors \subseteq DOMAIN actors'
       /\ \A n \in DOMAIN actors : n # S_root => actors'[n] = actors[n]
       /\ actors'[S_root].kind = "Root"
       /\ actors'[S_root].next >= actors[S_root].next
       /\ (srv.pc = "ng_reg_tab" /\ srv' # srv)
             => /\ srv.tab.name = FormatName(S_tab, actors[S_root].next - 1)
                /\ srv.tab.name \notin DOMAIN actors
                /\ DOMAIN actors' = DOMAIN actors \cup {srv.tab.name}
       /\ (srv.pc = "ng_reg_console" /\ srv' # srv)
             => /\ srv.console.name = FormatName(S_console, actors[S_root].next - 1)
                /\ srv.console.name \notin DOMAIN actors
                /\ DOMAIN actors' = DOMAIN actors \cup {srv.console.name}]_vars

\* two NewGlobal messages have left five actors, and a connection accepted
\* since has found the root for its greeting
C20_Witness ==
    /\ Cardinality(DOMAIN actors) = 5
    /\ \E s \in Conn : w[s].pc = "greet" /\ out[s] = <<>>

=============================================================================
